---- MODULE Spec2Model ----
(***************************************************************************)
(* Model of elmer-docs/scripts/jury-system/persona_loader.py:              *)
(*   expand_persona, load_personas_for_jury and sample_stratified.         *)
(*                                                                         *)
(* A persona is a record                                                   *)
(*   id        the "id" string, as a sequence of characters                *)
(*   has_psych whether the dict has a "psychographics" key                 *)
(*   traits    psychographics without ai_adoption_stage: key |-> value,    *)
(*             a value being [num |-> isinstance(v, (int, float)), v |-> n]*)
(*             with n in hundredths (0.95 is 95)                           *)
(*   stage     <<>> when psychographics has no "ai_adoption_stage" key,    *)
(*             <<s>> when it has the value s                               *)
(* skeptic_minimum is in hundredths too (0.15 is 15).                      *)
(***************************************************************************)
EXTENDS Integers, Sequences, FiniteSets

VARIABLES
  pc,                \* position in load_personas_for_jury / sample_stratified
  generated_file,    \* find_latest_generated_personas_file() found a file
  generated_content, \* the list json.load reads from that file
  seeds_dir,         \* what load_seed_personas() reads from personas/seeds
  jury_size,         \* argument of load_personas_for_jury
  skeptic_minimum,   \* argument, hundredths
  personas,          \* load_personas_for_jury line 153; sample_stratified's parameter
  size,              \* sample_stratified's parameter
  seed_personas,     \* line 161
  all_personas,      \* line 176
  expansion_index,   \* line 189
  seed,              \* line 192; expand_persona's parameter
  expanded,          \* line 193; expand_persona's result, <<>> before any call
  by_adoption,       \* line 213
  jury,              \* line 227
  result,            \* the returned list
  seeds_loaded,      \* history: load_seed_personas was called
  archetypes_loaded, \* history: load_archetypes was called
  expand_calls       \* history: the calls of expand_persona, in order, each with
                     \* its seed, index, result and whether line 113 drew < 0.1

vars == <<pc, generated_file, generated_content, seeds_dir, jury_size,
          skeptic_minimum, personas, size, seed_personas, all_personas,
          expansion_index, seed, expanded, by_adoption, jury, result,
          seeds_loaded, archetypes_loaded, expand_calls>>

----------------------------------------------------------------------------
(* Bounds of the checked instances *)

MaxPool == 4
MaxSize == 4
MaxGen == 1
MaxSeeds == 2
MaxIndex == 11

----------------------------------------------------------------------------
(* Sequences *)

Range(s) == {s[i] : i \in 1..Len(s)}

SeqsUpTo(S, n) == UNION {[1..k -> S] : k \in 0..n}

Count(s, x) == Cardinality({i \in 1..Len(s) : s[i] = x})

Take(s, n) == SubSeq(s, 1, IF n < Len(s) THEN n ELSE Len(s))

Min2(a, b) == IF a < b THEN a ELSE b

Max2(a, b) == IF a > b THEN a ELSE b

\* the sequences of k distinct members of the set S
RECURSIVE Arrangements(_, _)
Arrangements(S, k) ==
  IF k = 0 THEN {<<>>}
  ELSE UNION {{<<x>> \o t : t \in Arrangements(S \ {x}, k - 1)} : x \in S}

\* k distinct positions of a list of n entries, in an order
Picks(k, n) == Arrangements(1..n, k)

\* random.sample(list, k): k entries at distinct positions, in any order
RandomSample(list, k) == {[i \in 1..k |-> list[f[i]]] : f \in Picks(k, Len(list))}

\* random.shuffle(list): any rearrangement
Shuffles(list) == RandomSample(list, Len(list))

----------------------------------------------------------------------------
(* Strings as sequences of characters *)

Digits == <<"0", "1", "2", "3", "4", "5", "6", "7", "8", "9">>

RECURSIVE IntToStr(_)
IntToStr(n) ==
  IF n < 10 THEN <<Digits[n + 1]>>
  ELSE IntToStr(n \div 10) \o <<Digits[(n % 10) + 1]>>

ExpandedPrefix == <<"e", "x", "p", "a", "n", "d", "e", "d", "_">>

\* f"expanded_{seed['id']}_{index}"
ExpandedId(id, index) == ExpandedPrefix \o id \o <<"_">> \o IntToStr(index)

----------------------------------------------------------------------------
(* expand_persona, lines 94-126 *)

NamedTraits ==
  {"trust_in_ai", "tool_fatigue", "patience_for_learning",
   "complexity_tolerance", "migration_sensitivity"}

\* random.uniform(-0.15, 0.15), hundredths
Variance == 15

\* the draws of random.uniform the model follows: both ends of the interval
Deltas == {-Variance, Variance}

Stages == <<"skeptic", "curious", "early-adopter", "power-user">>

Num(n) == [num |-> TRUE, v |-> n]

NotNum == [num |-> FALSE, v |-> 0]

\* Clamp without the upper limit: min(1.0, _) left out
ClampBelowOnly(x) == Max2(0, x)

\* max(0.0, min(1.0, x)); round(_, 2) leaves a value in hundredths as it is
Clamp(x) == Max2(0, Min2(100, x))

\* the keys the loop of lines 106-110 changes
Perturbed(s) ==
  IF s.has_psych
  THEN {k \in DOMAIN s.traits \cap NamedTraits : s.traits[k].num}
  ELSE {}

PerturbTraits(traits, delta) ==
  [k \in DOMAIN traits |->
     IF k \in NamedTraits /\ traits[k].num
     THEN Num(Clamp(traits[k].v + delta[k]))
     ELSE traits[k]]

\* stages.index(current), 0-based as in the source
StageIndex(current) == (CHOOSE i \in 1..Len(Stages) : Stages[i] = current) - 1

\* NudgeStage without the two boundary branches: stages[idx + step] at every
\* index, where stages[-1] is the last stage and stages[4] does not exist
NudgeStageUnguarded(stage, step) ==
  LET current == IF stage = <<>> THEN "curious" ELSE stage[1]
  IN IF current \in Range(Stages)
     THEN LET to == StageIndex(current) + step
          IN IF to < 0 THEN <<Stages[Len(Stages)]>>
             ELSE IF to >= Len(Stages) THEN stage
             ELSE <<Stages[to + 1]>>
     ELSE stage

\* lines 114-124: psych's ai_adoption_stage after the branch of line 113 is taken;
\* step is random.choice([-1, 1])
NudgeStage(stage, step) ==
  LET current == IF stage = <<>> THEN "curious" ELSE stage[1]
  IN IF current \in Range(Stages)
     THEN LET idx == StageIndex(current)
          IN IF idx = 0 THEN <<Stages[1 + 1]>>
             ELSE IF idx = Len(Stages) - 1 THEN <<Stages[Len(Stages) - 2 + 1]>>
             ELSE <<Stages[idx + step + 1]>>
     ELSE stage

\* expand_persona(s, index, archetypes) under the draws delta (one per perturbed
\* key), nudge (random.random() < 0.1) and step. Without a "psychographics" key
\* psych is a fresh dict that is dropped on return.
ExpandPersona(s, index, delta, nudge, step) ==
  [id |-> ExpandedId(s.id, index),
   has_psych |-> s.has_psych,
   traits |-> IF s.has_psych THEN PerturbTraits(s.traits, delta) ELSE s.traits,
   stage |-> IF nudge /\ s.has_psych THEN NudgeStage(s.stage, step) ELSE s.stage]

\* the draws one call of expand_persona(s, ...) can make
ExpandDraws(s) ==
  [delta : [Perturbed(s) -> Deltas], nudge : BOOLEAN, step : {-1, 1}]

----------------------------------------------------------------------------
(* sample_stratified, lines 200-243 *)

\* p.get("psychographics", {}).get("ai_adoption_stage", "curious")
StageOf(p) == IF p.has_psych /\ p.stage # <<>> THEN p.stage[1] ELSE "curious"

\* lines 220-225
ByAdoption(ps) ==
  [b \in Range(Stages) |->
     SelectSeq(ps, LAMBDA p :
       IF StageOf(p) \in Range(Stages) THEN StageOf(p) = b ELSE b = "curious")]

\* int(x) of the quotient n / d: towards zero. The products size * skeptic_minimum
\* of the checked instances are exact in binary floating point or far from an
\* integer, so the float product truncates to the same value.
IntTrunc(n, d) == IF n >= 0 THEN n \div d ELSE -((-n) \div d)

\* line 209, negated
NeedsSampling(ps, sz) == Len(ps) > sz

\* SkepticCount without max(_, 1)
SkepticCountNoFloor(sz, minimum) == IntTrunc(sz * minimum, 100)

\* line 230
SkepticCount(sz, minimum) == Max2(IntTrunc(sz * minimum, 100), 1)

\* line 237: membership in a list of dicts compares contents
OtherPersonas(ps, chosen) == SelectSeq(ps, LAMBDA p : p \notin Range(chosen))

----------------------------------------------------------------------------
(* load_personas_for_jury, lines 129-197 *)

\* GeneratedSuffices with > for >=
GeneratedExceeds(ps, n) == Len(ps) > n

\* line 155
GeneratedSuffices(ps, n) == Len(ps) >= n

\* NoSeeds with the check left out
NoSeedsUnchecked(sp) == FALSE

\* line 163
NoSeeds(sp) == sp = <<>>

\* StillShort with <= for <
ShortOrEqual(ps, n) == Len(ps) <= n

\* lines 184 and 190
StillShort(ps, n) == Len(ps) < n

\* line 195
NextIndex(i) == i + 1

----------------------------------------------------------------------------
(* The personas of the checked instances *)

Str1(c) == <<c>>

EmptyTraits == [k \in {} |-> NotNum]

Persona(id, stage, traits) ==
  [id |-> id, has_psych |-> TRUE, traits |-> traits, stage |-> stage]

NoPsych(id) ==
  [id |-> id, has_psych |-> FALSE, traits |-> EmptyTraits, stage |-> <<>>]

SomeTraits ==
  [k \in {"trust_in_ai", "tool_fatigue", "complexity_tolerance", "risk_aversion"} |->
     CASE k = "trust_in_ai" -> Num(95)
       [] k = "tool_fatigue" -> Num(5)
       [] k = "complexity_tolerance" -> NotNum
       [] OTHER -> Num(120)]

TrustOnly(n) == [k \in {"trust_in_ai"} |-> Num(n)]

\* pools of sample_stratified: two skeptics, a curious one, one without psychographics
SamplePersonas ==
  {Persona(Str1("a"), <<"skeptic">>, TrustOnly(95)),
   Persona(Str1("b"), <<"skeptic">>, EmptyTraits),
   Persona(Str1("c"), <<"curious">>, EmptyTraits),
   NoPsych(Str1("d"))}

\* seeds of expand_persona: every known stage, an unknown one, none, no psychographics
ExpandSeeds ==
  {Persona(Str1("a"), <<st>>, SomeTraits) :
     st \in Range(Stages) \cup {"resistant"}}
  \cup {Persona(Str1("a"), <<>>, SomeTraits), NoPsych(Str1("a"))}

FatigueAndMore ==
  [k \in {"tool_fatigue", "complexity_tolerance", "risk_aversion"} |->
     CASE k = "tool_fatigue" -> Num(5)
       [] k = "complexity_tolerance" -> NotNum
       [] OTHER -> Num(120)]

\* seed files: a skeptic near the top of a trait, and a record without a stage
\* that carries a trait out of range
SeedPersonas ==
  {Persona(Str1("a"), <<"skeptic">>, TrustOnly(95)),
   Persona(Str1("b"), <<>>, FatigueAndMore)}

\* a generated batch: a plain record, and one kept from an earlier expansion
GenPersonas ==
  {Persona(Str1("g"), <<"power-user">>, TrustOnly(100)),
   Persona(ExpandedId(Str1("a"), 0), <<"skeptic">>, TrustOnly(80))}

SkepticMinimums == {-50, 15, 50, 200}

LoaderMinimums == {15, 200}

----------------------------------------------------------------------------
(* State *)

inputs == <<generated_file, generated_content, seeds_dir, jury_size, skeptic_minimum>>

loader == <<seed_personas, all_personas, expansion_index, seed, expanded,
            seeds_loaded, archetypes_loaded, expand_calls>>

sampler == <<by_adoption, jury, result>>

Locals ==
  /\ personas = <<>>
  /\ seed_personas = <<>>
  /\ all_personas = <<>>
  /\ expanded = <<>>
  /\ by_adoption = ByAdoption(<<>>)
  /\ jury = <<>>
  /\ result = <<>>
  /\ seeds_loaded = FALSE
  /\ archetypes_loaded = FALSE
  /\ expand_calls = <<>>

\* a call of load_personas_for_jury(jury_size, skeptic_minimum) on some directory tree
Init ==
  /\ pc = "start"
  /\ generated_file \in BOOLEAN
  /\ generated_content \in
       IF generated_file THEN SeqsUpTo(GenPersonas, MaxGen) ELSE {<<>>}
  /\ seeds_dir \in SeqsUpTo(SeedPersonas, MaxSeeds)
  /\ jury_size \in 0..MaxSize
  /\ skeptic_minimum \in LoaderMinimums
  /\ size = 0
  /\ expansion_index = 0
  /\ seed = <<>>
  /\ Locals

\* a call of sample_stratified(personas, size, skeptic_minimum)
InitSample ==
  /\ pc = "sample"
  /\ personas \in SeqsUpTo(SamplePersonas, MaxPool)
  /\ size \in 0..MaxSize
  /\ skeptic_minimum \in SkepticMinimums
  /\ generated_file = FALSE
  /\ generated_content = <<>>
  /\ seeds_dir = <<>>
  /\ jury_size = size
  /\ seed_personas = <<>>
  /\ all_personas = <<>>
  /\ expansion_index = 0
  /\ seed = <<>>
  /\ expanded = <<>>
  /\ by_adoption = ByAdoption(<<>>)
  /\ jury = <<>>
  /\ result = <<>>
  /\ seeds_loaded = FALSE
  /\ archetypes_loaded = FALSE
  /\ expand_calls = <<>>

\* a call of expand_persona(seed, index, archetypes)
InitExpand ==
  /\ pc = "expand"
  /\ seed \in {<<s>> : s \in ExpandSeeds}
  /\ expansion_index \in 0..MaxIndex
  /\ generated_file = FALSE
  /\ generated_content = <<>>
  /\ seeds_dir = <<>>
  /\ jury_size = 0
  /\ skeptic_minimum = 15
  /\ size = 0
  /\ Locals

----------------------------------------------------------------------------
(* load_personas_for_jury *)

\* return sample_stratified(ps, jury_size, skeptic_minimum)
CallSample(ps) ==
  /\ personas' = ps
  /\ size' = jury_size
  /\ pc' = "sample"

\* lines 148-156: the generated file holds enough
LoadGeneratedSufficient ==
  /\ pc = "start"
  /\ generated_file
  /\ GeneratedSuffices(generated_content, jury_size)
  /\ CallSample(generated_content)
  /\ UNCHANGED <<inputs, loader, sampler>>

\* lines 148-158: the generated file is short
LoadGeneratedShort ==
  /\ pc = "start"
  /\ generated_file
  /\ ~GeneratedSuffices(generated_content, jury_size)
  /\ personas' = generated_content
  /\ pc' = "seeds"
  /\ UNCHANGED <<inputs, size, loader, sampler>>

\* lines 148-150: no generated file
NoGenerated ==
  /\ pc = "start"
  /\ ~generated_file
  /\ pc' = "seeds"
  /\ UNCHANGED <<inputs, personas, size, loader, sampler>>

\* lines 161-173: load the seeds; FileNotFoundError without any
LoadSeeds ==
  /\ pc = "seeds"
  /\ seed_personas' = seeds_dir
  /\ seeds_loaded' = TRUE
  /\ pc' = IF NoSeeds(seeds_dir) THEN "error" ELSE "combine"
  /\ UNCHANGED <<inputs, personas, size, all_personas, expansion_index, seed,
                 expanded, archetypes_loaded, expand_calls, sampler>>

\* lines 176-181: generated (read again) followed by the seeds
Combined == (IF generated_file THEN generated_content ELSE <<>>) \o seed_personas

\* lines 176-189: still short, prepare the expansion
CombineShort ==
  /\ pc = "combine"
  /\ StillShort(Combined, jury_size)
  /\ all_personas' = Combined
  /\ archetypes_loaded' = TRUE
  /\ expansion_index' = 0
  /\ pc' = "loop"
  /\ UNCHANGED <<inputs, personas, size, seed_personas, seed, expanded,
                 seeds_loaded, expand_calls, sampler>>

\* lines 176-184, 197: enough without expansion
CombineEnough ==
  /\ pc = "combine"
  /\ ~StillShort(Combined, jury_size)
  /\ all_personas' = Combined
  /\ CallSample(Combined)
  /\ UNCHANGED <<inputs, seed_personas, expansion_index, seed, expanded,
                 seeds_loaded, archetypes_loaded, expand_calls, sampler>>

\* lines 190-195: one iteration of the expansion loop
ExpandStep ==
  /\ pc = "loop"
  /\ StillShort(all_personas, jury_size)
  /\ \E i \in 1..Len(seed_personas) :
       \E d \in ExpandDraws(seed_personas[i]) :
         LET e == ExpandPersona(seed_personas[i], expansion_index,
                                d.delta, d.nudge, d.step)
         IN /\ seed' = <<seed_personas[i]>>
            /\ expanded' = <<e>>
            /\ all_personas' = Append(all_personas, e)
            /\ expand_calls' = Append(expand_calls,
                 [seed |-> seed_personas[i], index |-> expansion_index,
                  nudge |-> d.nudge, out |-> e])
  /\ expansion_index' = NextIndex(expansion_index)
  /\ pc' = "loop"
  /\ UNCHANGED <<inputs, personas, size, seed_personas, seeds_loaded,
                 archetypes_loaded, sampler>>

\* lines 190, 197: the loop ends
LoopExit ==
  /\ pc = "loop"
  /\ ~StillShort(all_personas, jury_size)
  /\ CallSample(all_personas)
  /\ UNCHANGED <<inputs, loader, sampler>>

----------------------------------------------------------------------------
(* sample_stratified *)

\* lines 209-210
SampleReturnAll ==
  /\ pc = "sample"
  /\ ~NeedsSampling(personas, size)
  /\ result' = personas
  /\ pc' = "done"
  /\ UNCHANGED <<inputs, personas, size, loader, by_adoption, jury>>

\* lines 213-227
SamplePartition ==
  /\ pc = "sample"
  /\ NeedsSampling(personas, size)
  /\ by_adoption' = ByAdoption(personas)
  /\ jury' = <<>>
  /\ pc' = "quota"
  /\ UNCHANGED <<inputs, personas, size, loader, result>>

\* lines 230-233
SampleQuota ==
  /\ pc = "quota"
  /\ LET skeptic_count == SkepticCount(size, skeptic_minimum)
         skeptics_available == by_adoption["skeptic"]
     IN IF skeptics_available # <<>>
        THEN \E drawn \in RandomSample(skeptics_available,
                            Min2(skeptic_count, Len(skeptics_available))) :
               jury' = jury \o drawn
        ELSE jury' = jury
  /\ pc' = "fill"
  /\ UNCHANGED <<inputs, personas, size, loader, by_adoption, result>>

\* lines 236-240
SampleFill ==
  /\ pc = "fill"
  /\ LET remaining == size - Len(jury)
         other_personas == OtherPersonas(personas, jury)
     IN IF other_personas # <<>> /\ remaining > 0
        THEN \E drawn \in RandomSample(other_personas,
                            Min2(remaining, Len(other_personas))) :
               jury' = jury \o drawn
        ELSE jury' = jury
  /\ pc' = "shuffle"
  /\ UNCHANGED <<inputs, personas, size, loader, by_adoption, result>>

\* lines 242-243
SampleReturn ==
  /\ pc = "shuffle"
  /\ \E shuffled \in Shuffles(jury) :
       /\ jury' = shuffled
       /\ result' = Take(shuffled, size)
  /\ pc' = "done"
  /\ UNCHANGED <<inputs, personas, size, loader, by_adoption>>

----------------------------------------------------------------------------
(* expand_persona called on its own *)

ExpandCall ==
  /\ pc = "expand"
  /\ \E d \in ExpandDraws(seed[1]) :
       LET e == ExpandPersona(seed[1], expansion_index, d.delta, d.nudge, d.step)
       IN /\ expanded' = <<e>>
          /\ expand_calls' = Append(expand_calls,
               [seed |-> seed[1], index |-> expansion_index,
                nudge |-> d.nudge, out |-> e])
  /\ pc' = "expanded"
  /\ UNCHANGED <<inputs, personas, size, seed_personas, all_personas,
                 expansion_index, seed, seeds_loaded, archetypes_loaded, sampler>>

----------------------------------------------------------------------------
(* Specifications *)

NextSample ==
  \/ SampleReturnAll
  \/ SamplePartition
  \/ SampleQuota
  \/ SampleFill
  \/ SampleReturn

NextExpand == ExpandCall

Next ==
  \/ LoadGeneratedSufficient
  \/ LoadGeneratedShort
  \/ NoGenerated
  \/ LoadSeeds
  \/ CombineShort
  \/ CombineEnough
  \/ ExpandStep
  \/ LoopExit
  \/ NextSample

Spec == Init /\ [][Next]_vars

\* the call runs to its end: nothing suspends it
LiveSpec == Spec /\ WF_vars(Next)

SpecSample == InitSample /\ [][NextSample]_vars

SpecExpand == InitExpand /\ [][NextExpand]_vars

----------------------------------------------------------------------------
(* Properties of sample_stratified, under SpecSample *)

IsSkeptic(p) == p.has_psych /\ p.stage = <<"skeptic">>

SkepticsIn(ps) == Cardinality({i \in 1..Len(ps) : IsSkeptic(ps[i])})

\* min(max(floor(size * skeptic_minimum), 1), skeptics in the pool)
RequiredSkeptics ==
  Min2(Max2((size * skeptic_minimum) \div 100, 1), SkepticsIn(personas))

\* C1: sample_stratified returns exactly min(size, len(pool)) records, for every
\* pool, pools with several records of identical content included.
C1_ExactSize ==
  pc = "done" => Len(result) = Min2(size, Len(personas))

\* C2, as claimed: when the pool is larger than size and holds a skeptic, the
\* sample holds at least min(max(floor(size * skeptic_minimum), 1), skeptics in
\* the pool) skeptics, also when size is 0 or the required count exceeds size.
C2_QuotaAsClaimed ==
  (pc = "done" /\ Len(personas) > size /\ SkepticsIn(personas) >= 1)
    => SkepticsIn(result) >= RequiredSkeptics

\* C2, amended: when the pool is larger than size and holds a skeptic, the sample
\* holds at least min(required count, skeptics in the pool, size) skeptics: the
\* truncation to size caps the quota.
C2_QuotaUpToSize ==
  (pc = "done" /\ Len(personas) > size /\ SkepticsIn(personas) >= 1)
    => SkepticsIn(result) >= Min2(RequiredSkeptics, size)

\* C2 witness: a quota larger than size was drawn and the shuffled list was cut.
C2_Witness ==
  /\ pc = "done"
  /\ size >= 1
  /\ Len(personas) > size
  /\ RequiredSkeptics > size
  /\ Len(jury) > Len(result)
  /\ SkepticsIn(result) = size

\* C10: every sampled record is in the pool and occurs in the sample no more
\* often than in the pool; the skeptics drawn for the quota are not drawn again
\* by the fill step, and every pool entry not drawn for the quota can still be
\* drawn by the fill step (when slots remain to fill).
C10_WithoutReplacement ==
  /\ pc \in {"shuffle", "done"} =>
       \A r \in Range(jury) :
         r \in Range(personas) /\ Count(jury, r) <= Count(personas, r)
  /\ pc = "done" =>
       \A r \in Range(result) :
         r \in Range(personas) /\ Count(result, r) <= Count(personas, r)
  /\ (pc = "fill" /\ size - Len(jury) > 0) =>
       \A r \in Range(personas) :
         Count(OtherPersonas(personas, jury), r) = Count(personas, r) - Count(jury, r)

----------------------------------------------------------------------------
(* Properties of expand_persona, under SpecExpand *)

KnownStage(st) == st # <<>> /\ st[1] \in Range(Stages)

Position(st) == CHOOSE i \in 1..Len(Stages) : Stages[i] = st[1]

\* the stage st after the call: one step away when nudged, st when not
NudgedOrKept(st, to, nudge) ==
  /\ KnownStage(to)
  /\ IF nudge
     THEN Position(to) - Position(st) \in {-1, 1}
     ELSE to = st

\* C9, as claimed: the result's stage is the seed's or, when nudged, exactly one
\* step away; a seed whose stage is not one of the four, a seed without the
\* field included, keeps its stage (and gets no field written).
C9_StageAsClaimed ==
  pc = "expanded" =>
    LET s == seed[1]
        e == expanded[1]
        nudge == expand_calls[1].nudge
    IN IF KnownStage(s.stage) THEN NudgedOrKept(s.stage, e.stage, nudge)
       ELSE e.stage = s.stage

\* C9, amended: as claimed for a seed that has a stage value; a seed whose
\* psychographics has no ai_adoption_stage is nudged as if it were curious, so
\* its result has no stage when not nudged and skeptic or early-adopter when
\* nudged; a seed without psychographics gets none.
C9_StageNudge ==
  pc = "expanded" =>
    LET s == seed[1]
        e == expanded[1]
        nudge == expand_calls[1].nudge
    IN IF KnownStage(s.stage) THEN NudgedOrKept(s.stage, e.stage, nudge)
       ELSE IF s.stage # <<>> \/ ~s.has_psych \/ ~nudge THEN e.stage = s.stage
       ELSE e.stage \in {<<"skeptic">>, <<"early-adopter">>}

\* C9 witness: a seed without the stage field came out as early-adopter.
C9_Witness ==
  /\ pc = "expanded"
  /\ seed[1].has_psych
  /\ seed[1].stage = <<>>
  /\ expanded[1].stage = <<"early-adopter">>

----------------------------------------------------------------------------
(* Properties of load_personas_for_jury, under Spec and LiveSpec *)

Loaded == (IF generated_file THEN generated_content ELSE <<>>) \o seed_personas

OnDisk == (IF generated_file THEN generated_content ELSE <<>>) \o seeds_dir

DistinctIds(ps) == \A i, j \in 1..Len(ps) : i # j => ps[i].id # ps[j].id

NumericInRange(p) ==
  \A k \in DOMAIN p.traits : p.traits[k].num => p.traits[k].v \in 0..100

\* C3: the call fails with the missing-source error if and only if there is no
\* generated collection and no seed; a short generated collection does not make
\* it fail. (An empty generated list is read here as no collection.)
C3_MissingSourceIff ==
  pc \in {"done", "error"} =>
    /\ (~generated_file /\ seeds_dir = <<>>) => pc = "error"
    /\ pc = "error" =>
         /\ ~generated_file \/ generated_content = <<>>
         /\ seeds_dir = <<>>

\* C4: every call ends, with a jury or with the error; the expansion loop is
\* never entered without seeds.
C4_Terminates ==
  /\ [](pc = "loop" => seed_personas # <<>>)
  /\ <>(pc \in {"done", "error"})

\* C4 witness: a short generated collection and no seeds, and the call ended.
C4_Witness ==
  /\ pc = "error"
  /\ generated_file
  /\ generated_content # <<>>
  /\ Len(generated_content) < jury_size
  /\ seeds_loaded
  /\ seeds_dir = <<>>

\* C5: loaded records with distinct ids give a jury with distinct ids.
C5_DistinctIds ==
  (pc = "done" /\ DistinctIds(Loaded)) => DistinctIds(result)

\* C6: with a generated collection of at least jury_size records the result is
\* sampled from it alone: no seeds, no archetypes, no expansion.
C6_GeneratedOnly ==
  (generated_file /\ Len(generated_content) >= jury_size) =>
    /\ ~seeds_loaded
    /\ ~archetypes_loaded
    /\ expand_calls = <<>>
    /\ pc # "error"
    /\ pc # "start" => personas = generated_content
    /\ pc = "done" => \A r \in Range(result) : r \in Range(generated_content)

\* C6 witness: a generated collection of exactly jury_size records, seeds on disk.
C6_Witness ==
  /\ pc = "done"
  /\ generated_file
  /\ jury_size >= 1
  /\ Len(generated_content) = jury_size
  /\ seeds_dir # <<>>
  /\ Len(result) = jury_size

\* C7, as claimed: every numeric trait of every returned persona is in [0, 1].
C7_AllInRange ==
  pc = "done" => \A r \in Range(result) : NumericInRange(r)

\* C7, amended: the five named traits of an expanded record are in [0, 1], its
\* other traits are the seed's, and generated and seed records are returned as
\* loaded; so every numeric trait returned is in [0, 1] when the loaded ones are.
C7_ClampedOrLoaded ==
  /\ \A c \in Range(expand_calls) :
       /\ DOMAIN c.out.traits = DOMAIN c.seed.traits
       /\ \A k \in DOMAIN c.out.traits :
            IF k \in NamedTraits /\ c.seed.traits[k].num
            THEN c.out.traits[k].num /\ c.out.traits[k].v \in 0..100
            ELSE c.out.traits[k] = c.seed.traits[k]
  /\ pc = "done" =>
       /\ \A r \in Range(result) :
            r \in Range(Loaded) \cup {c.out : c \in Range(expand_calls)}
       /\ (\A p \in Range(Loaded) : NumericInRange(p))
            => \A r \in Range(result) : NumericInRange(r)

\* C7 witness: 0.95 + 0.15 was clamped to 1.0 in a returned record.
C7_Witness ==
  /\ pc = "done"
  /\ \A p \in Range(Loaded) : NumericInRange(p)
  /\ \E c \in Range(expand_calls) :
       /\ c.out \in Range(result)
       /\ c.seed.traits["trust_in_ai"].v = 95
       /\ c.out.traits["trust_in_ai"].v = 100

\* the expansion is triggered: seeds, and fewer records than jury_size
ExpansionTriggered == seeds_dir # <<>> /\ Len(OnDisk) < jury_size

\* C8: a triggered expansion makes jury_size - n calls of expand_persona, with
\* the indices 0, 1, ... in order, each on a seed; the jury returned has
\* jury_size records, the generated and seed records among them.
C8_Expansion ==
  /\ \A k \in 1..Len(expand_calls) :
       /\ expand_calls[k].index = k - 1
       /\ expand_calls[k].seed \in Range(seeds_dir)
  /\ (pc = "done" /\ ExpansionTriggered) =>
       /\ Len(expand_calls) = jury_size - Len(OnDisk)
       /\ Len(result) = jury_size
       /\ \A r \in Range(OnDisk) : Count(result, r) >= Count(OnDisk, r)

\* C8 witness: two or more expansions on top of generated and seed records.
C8_Witness ==
  /\ pc = "done"
  /\ ExpansionTriggered
  /\ generated_file
  /\ generated_content # <<>>
  /\ Len(expand_calls) >= 2
  /\ expand_calls[2].index = 1

====
